---- MODULE Spec2Model ----
(***************************************************************************)
(* A model of nasagamma/peaksearch.py: the PeakSearch object, its          *)
(* constructor, the attribute assignments a caller may make, and           *)
(* calculate() with everything it calls (fwhm, kernel, kernel_matrix,      *)
(* convolve, scipy's find_peaks).                                          *)
(*                                                                         *)
(* Floating point.  The program computes in IEEE-754 doubles.  The model   *)
(* keeps the three special values NaN, +Inf, -Inf with the IEEE rules for  *)
(* them, and represents a finite double by a fixed-point integer: the      *)
(* integer v stands for v / SCALE.  Products and quotients are rounded     *)
(* toward zero to that resolution, a value smaller than the resolution is  *)
(* 0 (as a double underflows to 0, only sooner).  The sign of a zero is    *)
(* not kept: the program divides by a zero only in places where the sign   *)
(* of the resulting infinity is squared away or multiplied by a zero.      *)
(*                                                                         *)
(* Evaluation.  Only({body : v \in {e}}) is body with v bound to the value *)
(* of e, computed once: it stands for the program's "v = e" followed by    *)
(* the statements that read v.  Where several are nested, the innermost    *)
(* body is the last statement and the bindings read from the bottom line   *)
(* up.  Array([j \in 1..n |-> e]) is the array of the n computed values.   *)
(***************************************************************************)
EXTENDS Integers, Sequences, FiniteSets

\* The one element of a set of one element.
Only(S) == CHOOSE r \in S : TRUE

\* The function f on 1..n as an array of computed values.
Array(f) == f \o <<>>

\* Resolution of the fixed-point representation of a finite double.
SCALE == 1000

\* The special values, outside the range of the finite ones.
NaN == 2 ^ 30
PInf == 2 ^ 30 - 1
NInf == 1 - 2 ^ 30

IsNaN(a) == a = NaN
IsInf(a) == a \in {PInf, NInf}
IsFinite(a) == a \notin {NaN, PInf, NInf}

Abs(a) == Only({IF v < 0 THEN -v ELSE v : v \in {a}})

Sign(a) ==
    Only({IF v = PInf THEN 1 ELSE IF v = NInf THEN -1
          ELSE IF v > 0 THEN 1 ELSE IF v < 0 THEN -1 ELSE 0 : v \in {a}})

\* Integer quotient rounded toward zero (b > 0).
Trunc(a, b) == Only({IF v >= 0 THEN v \div b ELSE -((-v) \div b) : v \in {a}})

\* An integer n as a finite double.
Fx(n) == n * SCALE

\* IEEE negation, addition, subtraction, multiplication, division.
FNeg(a) ==
    Only({IF IsNaN(v) THEN NaN
          ELSE IF v = PInf THEN NInf
          ELSE IF v = NInf THEN PInf
          ELSE -v : v \in {a}})

FAdd(a, b) ==
    Only({IF IsNaN(u) \/ IsNaN(v) THEN NaN
          ELSE IF IsInf(u) /\ IsInf(v) THEN (IF u = v THEN u ELSE NaN)
          ELSE IF IsInf(u) THEN u
          ELSE IF IsInf(v) THEN v
          ELSE u + v : u \in {a}, v \in {b}})

FSub(a, b) == FAdd(a, FNeg(b))

FMul(a, b) ==
    Only({IF IsNaN(u) \/ IsNaN(v) THEN NaN
          ELSE IF IsInf(u) \/ IsInf(v)
               THEN (IF Sign(u) * Sign(v) = 0 THEN NaN
                     ELSE IF Sign(u) * Sign(v) > 0 THEN PInf ELSE NInf)
          ELSE Trunc(u * v, SCALE) : u \in {a}, v \in {b}})

FDiv(a, b) ==
    Only({IF IsNaN(u) \/ IsNaN(v) THEN NaN
          ELSE IF IsInf(u) /\ IsInf(v) THEN NaN
          ELSE IF IsInf(u)
               THEN (IF Sign(u) * (IF v < 0 THEN -1 ELSE 1) > 0 THEN PInf ELSE NInf)
          ELSE IF IsInf(v) THEN 0
          ELSE IF v = 0
               THEN (IF u = 0 THEN NaN ELSE IF u > 0 THEN PInf ELSE NInf)
          ELSE IF v > 0 THEN Trunc(u * SCALE, v)
          ELSE Trunc((-u) * SCALE, -v) : u \in {a}, v \in {b}})

\* IEEE comparison: every comparison with a NaN is false.
FGt(a, b) == Only({~IsNaN(u) /\ ~IsNaN(v) /\ u > v : u \in {a}, v \in {b}})
FGe(a, b) == Only({~IsNaN(u) /\ ~IsNaN(v) /\ u >= v : u \in {a}, v \in {b}})
FLt(a, b) == FGt(b, a)
FEq(a, b) == Only({~IsNaN(u) /\ ~IsNaN(v) /\ u = v : u \in {a}, v \in {b}})

\* Largest r with r * r <= n (n >= 0), by bisection on lo <= r < hi.
RECURSIVE ISqrtIn(_, _, _)
ISqrtIn(n, lo, hi) ==
    IF hi - lo <= 1 THEN lo
    ELSE Only({IF mid * mid <= n THEN ISqrtIn(n, mid, hi) ELSE ISqrtIn(n, lo, mid)
               : mid \in {(lo + hi) \div 2}})

ISqrt(n) == Only({ISqrtIn(v, 0, 46341) : v \in {n}})

\* np.sqrt: NaN for a negative argument, +Inf for +Inf.
FSqrt(a) ==
    Only({IF IsNaN(v) \/ v = NInf THEN NaN
          ELSE IF v = PInf THEN PInf
          ELSE IF v < 0 THEN NaN
          ELSE ISqrt(v * SCALE) : v \in {a}})

\* One step of Horner's rule for exp(-y): 1 - (y * t) / k.
HornerStep(y, t, k) == SCALE - Trunc(Trunc(y * t, SCALE), k)

\* exp(-y) for a finite y in [0, 1]: the Taylor polynomial of degree 6, by
\* Horner's rule.
ExpNegSmall(y) ==
    Only({Only({Only({Only({Only({Only({
        HornerStep(v, t2, 1)
        : t2 \in {HornerStep(v, t3, 2)}})
        : t3 \in {HornerStep(v, t4, 3)}})
        : t4 \in {HornerStep(v, t5, 4)}})
        : t5 \in {HornerStep(v, t6, 5)}})
        : t6 \in {SCALE - Trunc(v, 6)}})
        : v \in {y}})

\* The square of a value in [0, 1].
SquareSmall(e) == Only({Trunc(v * v, SCALE) : v \in {e}})

\* exp(-y) for a finite y >= 0: exp(-y) = exp(-y/8)^8, and 0 once the result
\* is below the resolution.
ExpNeg(y) ==
    Only({IF v >= 8 * SCALE THEN 0
          ELSE SquareSmall(SquareSmall(SquareSmall(ExpNegSmall(v \div 8))))
          : v \in {y}})

\* np.exp of an argument that is never positive here (it is -z**2 / 2).
FExp(a) ==
    Only({IF IsNaN(v) THEN NaN
          ELSE IF v = NInf THEN 0
          ELSE IF v = PInf THEN PInf
          ELSE ExpNeg(-v) : v \in {a}})

\* ndarray.clip(lo, hi) on one element: a NaN stays a NaN.
FClip(a, lo, hi) ==
    Only({IF IsNaN(v) THEN NaN
          ELSE IF v < lo THEN lo
          ELSE IF v > hi THEN hi
          ELSE v : v \in {a}})

\* The sum of a sequence of doubles (ndarray.sum along one axis, np.dot's
\* accumulation).
RECURSIVE FSum(_)
FSum(s) ==
    Only({IF v = <<>> THEN 0 ELSE FAdd(Head(v), FSum(Tail(v))) : v \in {s}})

\* gaussian(x, mean, sigma), one element.
gaussian(x, mean, sigma) ==
    Only({FExp(FNeg(FDiv(FMul(z, z), Fx(2))))
          : z \in {FDiv(FSub(x, mean), sigma)}})

\* gaussian_derivative(x, mean, sigma), one element.
gaussian_derivative(x, mean, sigma) ==
    Only({FMul(FMul(Fx(-1), z), gaussian(x, mean, sigma))
          : z \in {FSub(x, mean)}})

\* The factor 2.355 of kernel(): FWHM = 2.355 sigma for a Gaussian.
FWHM_PER_SIGMA == (2355 * SCALE) \div 1000

\* PeakSearch.fwhm(x) for one element x: (f1/np.sqrt(x1)) * np.sqrt(x) + f0.
fwhm(f0, f1, x1, x) ==
    FAdd(FMul(FDiv(f1, FSqrt(x1)), FSqrt(x)), f0)

\* PeakSearch.kernel(x, edges): the kernel centred at x, one entry per
\* channel interval [edges[j], edges[j+1]].
kernel(f0, f1, x1, x, edges) ==
    Only({Only({Only({
        Array([j \in 1..(Len(edges) - 1) |-> FSub(g1[j], g1[j + 1])])
        : g1 \in {Array([j \in 1..Len(edges) |->
                            gaussian_derivative(edges[j], x, sigma)])}})
        : sigma \in {FDiv(fwhm1, FWHM_PER_SIGMA)}})
        : fwhm1 \in {fwhm(f0, f1, x1, x)}})

\* One column of kernel_matrix after the split into positive and negative
\* parts and the rescaling of the negative part:
\*   kern_neg *= kern_pos.sum(axis=0) / kern_neg.sum(axis=0)
\*   kmat = kern_pos - kern_neg
\* with no guard on a zero kern_neg.sum.
kernel_column(kern) ==
    Only({Only({Only({
        Array([j \in 1..Len(k) |-> FSub(kern_pos[j], FMul(kern_neg[j], factor))])
        : factor \in {FDiv(FSum(kern_pos), FSum(kern_neg))}})
        : kern_pos \in {Array([j \in 1..Len(k) |-> FMul(Fx(1), FClip(k[j], 0, PInf))])},
          kern_neg \in {Array([j \in 1..Len(k) |-> FMul(Fx(-1), FClip(k[j], NInf, 0))])}})
        : k \in {kern}})

\* PeakSearch.kernel_matrix(edges): kmat[i][j] is row j of column i (the
\* kernel centred at edges[i]).
kernel_matrix(f0, f1, x1, edges) ==
    Array([i \in 1..(Len(edges) - 1) |->
              kernel_column(kernel(f0, f1, x1, edges[i], edges))])

\* np.dot(m, data)[j] for a matrix given by its columns.
Dot(m, data, j) == FSum(Array([i \in 1..Len(data) |-> FMul(m[i][j], data[i])]))

\* kern_mat.clip(0, np.inf), -1 * kern_mat.clip(-np.inf, 0) and kern_mat**2,
\* elementwise.
matrix_pos(m) ==
    Array([i \in 1..Len(m) |->
              Array([j \in 1..Len(m[i]) |-> FMul(Fx(1), FClip(m[i][j], 0, PInf))])])

matrix_neg(m) ==
    Array([i \in 1..Len(m) |->
              Array([j \in 1..Len(m[i]) |-> FMul(Fx(-1), FClip(m[i][j], NInf, 0))])])

matrix_squared(m) ==
    Array([i \in 1..Len(m) |->
              Array([j \in 1..Len(m[i]) |-> FMul(m[i][j], m[i][j])])])

\* snr = np.zeros_like(signal); snr[noise > 0] = signal[noise > 0] / noise[noise > 0]
snr_of(signal_, noise_) ==
    Array([j \in 1..Len(signal_) |->
              IF FGt(noise_[j], 0) THEN FDiv(signal_[j], noise_[j]) ELSE 0])

\* The five arrays of convolve, given the kernel matrix.
convolved(kern_mat, data) ==
    Only({Only({
        [peak_plus_bkg |-> Array([j \in 1..Len(data) |-> Dot(kern_mat_pos, data, j)]),
         bkg |-> Array([j \in 1..Len(data) |-> Dot(kern_mat_neg, data, j)]),
         signal |-> signal_,
         noise |-> noise_,
         snr |-> snr_of(signal_, noise_)]
        : signal_ \in {Array([j \in 1..Len(data) |-> Dot(kern_mat, data, j)])},
          noise_ \in {Array([j \in 1..Len(data) |->
                                FSqrt(Dot(kern_mat_sq, data, j))])}})
        : kern_mat_pos \in {matrix_pos(kern_mat)},
          kern_mat_neg \in {matrix_neg(kern_mat)},
          kern_mat_sq \in {matrix_squared(kern_mat)}})

\* PeakSearch.convolve(edges, data).
convolve(f0, f1, x1, edges, data) ==
    Only({convolved(kern_mat, data)
          : kern_mat \in {kernel_matrix(f0, f1, x1, edges)}})

\* scipy.signal._peak_finding_utils._local_maxima_1d, as find_peaks calls it.
\* x is indexed from 0 as in the source: X0(x, i) is x[i].
X0(x, i) == x[i + 1]

\* The inner loop: while i_ahead < i_max and x[i_ahead] == x[i]: i_ahead += 1
RECURSIVE plateau_end(_, _, _)
plateau_end(x, i, i_ahead) ==
    Only({IF a < Len(x) - 1 /\ FEq(X0(x, a), X0(x, i))
          THEN plateau_end(x, i, a + 1)
          ELSE a : a \in {i_ahead}})

\* The outer loop from position i: the midpoints of the maxima found.
RECURSIVE local_maxima_from(_, _)
local_maxima_from(x, i) ==
    Only({IF p >= Len(x) - 1 THEN <<>>
          ELSE IF FLt(X0(x, p - 1), X0(x, p))
               THEN Only({IF FLt(X0(x, i_ahead), X0(x, p))
                          THEN <<(p + (i_ahead - 1)) \div 2>>
                                   \o local_maxima_from(x, i_ahead + 1)
                          ELSE local_maxima_from(x, p + 1)
                          : i_ahead \in {plateau_end(x, p, p + 1)}})
               ELSE local_maxima_from(x, p + 1)
          : p \in {i}})

\* A variant that takes the two ends for maxima too: a missing neighbour
\* counts as lower.
local_maxima_with_ends(x) ==
    Only({SelectSeq(Array([k \in 1..Len(xv) |-> k - 1]),
                    LAMBDA p : /\ (p = 0 \/ FLt(X0(xv, p - 1), X0(xv, p)))
                               /\ (p = Len(xv) - 1 \/ FLt(X0(xv, p + 1), X0(xv, p))))
          : xv \in {x}})

local_maxima_1d(x) == Only({local_maxima_from(xv, 1) : xv \in {x}})

\* A variant that reads the height as an upper limit:
\* keep &= (peak_properties <= pmax).
select_by_height_as_max(x, peaks, height) ==
    Only({SelectSeq(peaks, LAMBDA p : FGe(h, X0(xv, p)))
          : xv \in {x}, h \in {height}})

\* scipy's _select_by_property with pmin = height, pmax = None:
\* keep &= (pmin <= peak_properties).
select_by_height(x, peaks, height) ==
    Only({SelectSeq(peaks, LAMBDA p : FGe(X0(xv, p), h))
          : xv \in {x}, h \in {height}})

\* A variant with non-strict comparisons: every position that is not below
\* its neighbours and is above one of them.
find_peaks_non_strict(x, height) ==
    Only({select_by_height(xv,
              SelectSeq(Array([k \in 1..(Len(xv) - 2) |-> k]),
                        LAMBDA p : /\ FGe(X0(xv, p), X0(xv, p - 1))
                                   /\ FGe(X0(xv, p), X0(xv, p + 1))
                                   /\ (\/ FGt(X0(xv, p), X0(xv, p - 1))
                                       \/ FGt(X0(xv, p), X0(xv, p + 1)))),
              height)
          : xv \in {x}})

\* find_peaks(x, height=height)[0].
find_peaks(x, height) ==
    Only({select_by_height(xv, local_maxima_1d(xv), height) : xv \in {x}})

\* snr.clip(0)
clip0(a) == Only({Array([j \in 1..Len(v) |-> FClip(v[j], 0, PInf)]) : v \in {a}})

\* The channels of a Spectrum built from counts alone: 0 .. N-1.
Channels(counts) == Array([k \in 1..Len(counts) |-> Fx(k - 1)])

\* np.append(channels, channels[-1] + 1), for a spectrum with a channel.
edges_of(channels) ==
    Only({Append(c, FAdd(c[Len(c)], Fx(1))) : c \in {channels}})

\* The stores of calculate(), given the arrays c of convolve and the peaks.
stored(self, c, peaks) ==
    [self EXCEPT
        !.fwhm_guess = Array([k \in 1..Len(peaks) |->
                                 fwhm(self.fwhm_at_0, self.ref_fwhm, self.ref_x,
                                      Fx(peaks[k]))]),
        !.peak_plus_bkg = c.peak_plus_bkg,
        !.bkg = c.bkg,
        !.signal = c.signal,
        !.noise = c.noise,
        !.snr = clip0(c.snr),
        !.peaks_idx = peaks,
        !.runs = self.runs + 1,
        !.raised = "none"]

\* The counts of the spectrum as doubles.
counts_of(o) == Array([k \in 1..Len(o.spectrum) |-> Fx(o.spectrum[k])])

\* A variant that extends the list of peaks it finds on the object instead of
\* replacing it.
calculate_extending(self) ==
    Only({IF Len(o.spectrum) = 0
          THEN [o EXCEPT !.raised = "IndexError"]
          ELSE Only({Only({
                   stored(o, c, o.peaks_idx \o peaks)
                   : peaks \in {find_peaks(clip0(c.snr), o.min_snr)}})
                   : c \in {convolve(o.fwhm_at_0, o.ref_fwhm, o.ref_x,
                                     edges_of(Channels(o.spectrum)), counts_of(o))}})
          : o \in {self}})

\* The arrays the object holds.
held(o) == [peak_plus_bkg |-> o.peak_plus_bkg, bkg |-> o.bkg,
            signal |-> o.signal, noise |-> o.noise, snr |-> o.snr]

\* A variant that convolves only once: when the object holds arrays already,
\* it keeps them and only searches them for peaks again.
calculate_cached(self) ==
    Only({IF Len(o.spectrum) = 0
          THEN [o EXCEPT !.raised = "IndexError"]
          ELSE Only({Only({
                   stored(o, c, peaks)
                   : peaks \in {find_peaks(clip0(c.snr), o.min_snr)}})
                   : c \in {IF o.snr # <<>> THEN held(o)
                            ELSE convolve(o.fwhm_at_0, o.ref_fwhm, o.ref_x,
                                          edges_of(Channels(o.spectrum)),
                                          counts_of(o))}})
          : o \in {self}})

\* The body of PeakSearch.calculate() on the object self: the object after
\* the call, with `raised` naming the exception that left it, if any.
\* channels[-1] of a spectrum without channels raises IndexError before any
\* field is stored.
calculate(self) ==
    Only({IF Len(o.spectrum) = 0
          THEN [o EXCEPT !.raised = "IndexError"]
          ELSE Only({Only({
                   stored(o, c, peaks)
                   : peaks \in {find_peaks(clip0(c.snr), o.min_snr)}})
                   : c \in {convolve(o.fwhm_at_0, o.ref_fwhm, o.ref_x,
                                     edges_of(Channels(o.spectrum)), counts_of(o))}})
          : o \in {self}})

(***************************************************************************)
(* The state: one PeakSearch object under construction or in use.          *)
(*   obj     "none" before the constructor is called, "live" once it has   *)
(*           returned the object, "failed" when it raised instead;         *)
(*   raised  the exception the last call raised, or "none";                *)
(*   attrs   the attributes that have been assigned on the object;         *)
(*   runs    the number of calculate() calls that have run to completion   *)
(*           since an attribute was last assigned (0 before the first);    *)
(*   the other variables are the object's attributes of the same name      *)
(*   (spectrum holds spectrum.counts; an attribute not in attrs holds a    *)
(*   placeholder).                                                         *)
(***************************************************************************)
VARIABLES obj, raised, attrs, runs,
          spectrum, ref_x, ref_fwhm, fwhm_at_0, min_snr,
          snr, peak_plus_bkg, bkg, signal, noise, peaks_idx, fwhm_guess

vars == <<obj, raised, attrs, runs,
          spectrum, ref_x, ref_fwhm, fwhm_at_0, min_snr,
          snr, peak_plus_bkg, bkg, signal, noise, peaks_idx, fwhm_guess>>

\* Bounds of the model: the longest spectrum of Spec and of SpecWide, and the
\* number of calculate() calls in a row.
MaxChannels == 3
MaxWideChannels == 5
MaxRuns == 2

\* The inputs the model draws from.
CountValues == {0, 5}
RefXValues == {Fx(-1), 0, Fx(1), Fx(4)}
RefFwhmValues == {Fx(1), Fx(2)}
FwhmAt0Values == {Fx(1), Fx(2)}
MinSnrValues == {0, Fx(2)}

\* What a caller may pass as `spectrum`: a Spectrum (given by its counts), or
\* something that is not a Spectrum.
NotASpectrum == <<-1>>
Spectra(n) == UNION {[1..k -> CountValues] : k \in 0..n}
SpectrumArgs == Spectra(MaxChannels) \cup {NotASpectrum}
WideSpectrumArgs == Spectra(MaxWideChannels)

ConfigAttrs == {"ref_x", "ref_fwhm", "fwhm_at_0", "spectrum", "min_snr"}
ResultAttrs == {"snr", "peak_plus_bkg", "bkg", "signal", "noise", "peaks_idx",
                "fwhm_guess"}

\* The object as one record, for the operators that take self.
Self == [obj |-> obj, raised |-> raised, attrs |-> attrs, runs |-> runs,
         spectrum |-> spectrum, ref_x |-> ref_x, ref_fwhm |-> ref_fwhm,
         fwhm_at_0 |-> fwhm_at_0, min_snr |-> min_snr,
         snr |-> snr, peak_plus_bkg |-> peak_plus_bkg, bkg |-> bkg,
         signal |-> signal, noise |-> noise, peaks_idx |-> peaks_idx,
         fwhm_guess |-> fwhm_guess]

\* Before the constructor: no attribute exists.
Blank == [obj |-> "none", raised |-> "none", attrs |-> {}, runs |-> 0,
          spectrum |-> <<>>, ref_x |-> 0, ref_fwhm |-> 0,
          fwhm_at_0 |-> 0, min_snr |-> 0,
          snr |-> <<>>, peak_plus_bkg |-> <<>>, bkg |-> <<>>,
          signal |-> <<>>, noise |-> <<>>, peaks_idx |-> <<>>,
          fwhm_guess |-> <<>>]

\* The object after the assignments of __init__ (lines 90 to 101).
assigned(spectrum_, ref_x_, ref_fwhm_, fwhm_at_0_, min_snr_) ==
    [Blank EXCEPT
        !.ref_x = ref_x_,
        !.ref_fwhm = ref_fwhm_,
        !.fwhm_at_0 = fwhm_at_0_,
        !.spectrum = spectrum_,
        !.min_snr = min_snr_,
        !.attrs = ConfigAttrs \cup ResultAttrs]

\* The constructor returns the object unless calculate() raised.
returned(done) == [done EXCEPT !.obj = IF done.raised = "none" THEN "live" ELSE "failed"]

\* A variant that checks the type of the spectrum after the assignments.
init_check_last(spectrum_, ref_x_, ref_fwhm_, fwhm_at_0_, min_snr_) ==
    IF spectrum_ = NotASpectrum
    THEN [assigned(spectrum_, ref_x_, ref_fwhm_, fwhm_at_0_, min_snr_)
             EXCEPT !.obj = "failed", !.raised = "Exception"]
    ELSE Only({returned(done)
               : done \in {calculate(assigned(spectrum_, ref_x_, ref_fwhm_,
                                               fwhm_at_0_, min_snr_))}})

\* PeakSearch.__init__(spectrum, ref_x, ref_fwhm, fwhm_at_0, min_snr): the
\* object it leaves.  The type check comes first and raises before any
\* assignment; the result attributes start as empty lists; calculate() is the
\* last statement, and an exception out of it leaves the constructor too.
init(spectrum_, ref_x_, ref_fwhm_, fwhm_at_0_, min_snr_) ==
    IF spectrum_ = NotASpectrum
    THEN [Blank EXCEPT !.obj = "failed", !.raised = "Exception"]
    ELSE Only({returned(done)
               : done \in {calculate(assigned(spectrum_, ref_x_, ref_fwhm_,
                                               fwhm_at_0_, min_snr_))}})

\* An assignment ps.<name> = v by the caller.
assign(self, name, v) == [self EXCEPT ![name] = v, !.runs = 0]

\* The state becomes the object o.
Becomes(o) ==
    /\ obj' = o.obj
    /\ raised' = o.raised
    /\ attrs' = o.attrs
    /\ runs' = o.runs
    /\ spectrum' = o.spectrum
    /\ ref_x' = o.ref_x
    /\ ref_fwhm' = o.ref_fwhm
    /\ fwhm_at_0' = o.fwhm_at_0
    /\ min_snr' = o.min_snr
    /\ snr' = o.snr
    /\ peak_plus_bkg' = o.peak_plus_bkg
    /\ bkg' = o.bkg
    /\ signal' = o.signal
    /\ noise' = o.noise
    /\ peaks_idx' = o.peaks_idx
    /\ fwhm_guess' = o.fwhm_guess

Init == /\ obj = "none" /\ raised = "none" /\ attrs = {} /\ runs = 0
        /\ spectrum = <<>> /\ ref_x = 0 /\ ref_fwhm = 0 /\ fwhm_at_0 = 0 /\ min_snr = 0
        /\ snr = <<>> /\ peak_plus_bkg = <<>> /\ bkg = <<>> /\ signal = <<>>
        /\ noise = <<>> /\ peaks_idx = <<>> /\ fwhm_guess = <<>>

\* PeakSearch(spectrum, ref_x, ref_fwhm, fwhm_at_0, min_snr), the spectrum
\* argument drawn from args.
ConstructFrom(args) ==
    /\ obj = "none"
    /\ \E s \in args, x1 \in RefXValues, f1 \in RefFwhmValues,
          f0 \in FwhmAt0Values, m \in MinSnrValues :
          \E o \in {init(s, x1, f1, f0, m)} : Becomes(o)

Construct == ConstructFrom(SpectrumArgs)

ConstructWide == ConstructFrom(WideSpectrumArgs)

\* ps.calculate()
Calculate ==
    /\ obj = "live"
    /\ runs < MaxRuns
    /\ \E o \in {calculate(Self)} : Becomes(o)

\* ps.ref_x = v
SetRefX ==
    /\ obj = "live"
    /\ \E v \in RefXValues : \E o \in {assign(Self, "ref_x", v)} : Becomes(o)

\* ps.ref_fwhm = v
SetRefFwhm ==
    /\ obj = "live"
    /\ \E v \in RefFwhmValues : \E o \in {assign(Self, "ref_fwhm", v)} : Becomes(o)

\* ps.fwhm_at_0 = v
SetFwhmAt0 ==
    /\ obj = "live"
    /\ \E v \in FwhmAt0Values : \E o \in {assign(Self, "fwhm_at_0", v)} : Becomes(o)

\* ps.min_snr = v, where v is one of the fixed values or a value read from
\* ps.snr.
SetMinSnr ==
    /\ obj = "live"
    /\ \E v \in MinSnrValues \cup {snr[k] : k \in 1..Len(snr)} :
          \E o \in {assign(Self, "min_snr", v)} : Becomes(o)

Next == \/ Construct
        \/ Calculate
        \/ SetRefX
        \/ SetRefFwhm
        \/ SetFwhmAt0
        \/ SetMinSnr

Spec == Init /\ [][Next]_vars

\* Construction and recalculation alone, over longer spectra.
NextWide == \/ ConstructWide
            \/ Calculate

SpecWide == Init /\ [][NextWide]_vars

(***************************************************************************)
(* The claims.                                                             *)
(***************************************************************************)

\* The results are those of a calculate() that ran with the current
\* configuration.
Fresh == obj = "live" /\ runs >= 1

\* The seven result attributes.
Results == <<peak_plus_bkg, bkg, signal, noise, snr, peaks_idx, fwhm_guess>>

ResultsOf(o) ==
    Only({<<v.peak_plus_bkg, v.bkg, v.signal, v.noise, v.snr,
                         v.peaks_idx, v.fwhm_guess>> : v \in {o}})

AllZero(a) == \A k \in 1..Len(a) : a[k] = 0

\* C1: a constructor call whose spectrum argument is not a Spectrum raises,
\* and leaves no partial state: no configuration or result attribute has been
\* assigned and calculate() has not run; and no object that was returned holds
\* anything but a Spectrum.
C1_TypeErrorLeavesNoState ==
    /\ raised = "Exception" => (obj = "failed" /\ attrs = {} /\ runs = 0)
    /\ obj = "live" => ("spectrum" \in attrs /\ spectrum # NotASpectrum)

C1_Witness == obj = "failed" /\ raised = "Exception"

\* C2: a constructor call with a valid spectrum and ref_x <= 0 fails: it
\* returns no object and computes no results.
C2_NonPositiveRefXFails ==
    [][(obj = "none" /\ "ref_x" \in attrs' /\ ref_x' <= 0)
          => (obj' = "failed" /\ runs' = 0)]_vars

\* C3: construction over a zero-length spectrum raises nothing and leaves all
\* seven outputs empty.
C3_EmptySpectrumSucceeds ==
    [][(obj = "none" /\ "spectrum" \in attrs' /\ Len(spectrum') = 0)
          => (obj' = "live" /\ raised' = "none" /\ runs' = 1
              /\ \A k \in 1..7 : Results'[k] = <<>>)]_vars

C5_ZeroCountsGiveZeroArrays ==
    (Fresh /\ Len(spectrum) >= 1 /\ AllZero(spectrum) /\ ref_x > 0)
        => /\ AllZero(peak_plus_bkg) /\ AllZero(bkg) /\ AllZero(signal)
           /\ AllZero(noise) /\ AllZero(snr)

\* The rounding allowed between the two column sums: one unit of resolution
\* for each rescaled entry and one for the rescaling factor.
ZeroSumTolerance == MaxWideChannels + 2

ColumnPos(col) == FSum(Array([j \in 1..Len(col) |-> FClip(col[j], 0, PInf)]))
ColumnNeg(col) == FSum(Array([j \in 1..Len(col) |-> FNeg(FClip(col[j], NInf, 0))]))

ColumnFinite(col) == \A j \in 1..Len(col) : IsFinite(col[j])

ColumnZeroSum(col) ==
    Only({IsFinite(pos) /\ IsFinite(neg) /\ Abs(pos - neg) <= ZeroSumTolerance
          : pos \in {ColumnPos(col)}, neg \in {ColumnNeg(col)}})

\* The matrix kernel_matrix returns for the object's spectrum and configuration.
KernelMatrixOfSelf ==
    kernel_matrix(fwhm_at_0, ref_fwhm, ref_x, edges_of(Channels(spectrum)))

\* C6: every column of kernel_matrix holds finite values only, also when its
\* negative part sums to zero before the rescaling, and its positive entries
\* sum to the magnitude of its negative entries.
C6_KernelColumnsZeroSumFinite ==
    (obj = "live" /\ ref_x > 0)
        => \A col \in {KernelMatrixOfSelf[i] : i \in 1..Len(spectrum)} :
              ColumnFinite(col) /\ ColumnZeroSum(col)

\* C7: a calculate() that follows a calculate() (the constructor's included)
\* with no assignment in between leaves the seven results as they were.
C7_CalculateIdempotent ==
    [][(obj = "live" /\ runs >= 1 /\ runs' = runs + 1) => Results' = Results]_vars

\* calculate() has run twice in a row and reported a peak.
C7_Witness == obj = "live" /\ runs >= 2 /\ peaks_idx # <<>>

\* C8: over a single-channel spectrum and with ref_x > 0, construction and
\* calculate() raise nothing and peaks_idx is empty.
C8_SingleChannelNoPeaks ==
    ("spectrum" \in attrs /\ Len(spectrum) = 1 /\ ref_x > 0)
        => (obj = "live" /\ raised = "none" /\ peaks_idx = <<>>)

C8_Witness ==
    Fresh /\ Len(spectrum) = 1 /\ spectrum[1] > 0 /\ ref_x > 0 /\ min_snr <= 0

\* The maximal run of equal values of x around position p (from 0).
RECURSIVE RunLeft(_, _)
RunLeft(x, p) == IF p > 0 /\ X0(x, p - 1) = X0(x, p) THEN RunLeft(x, p - 1) ELSE p

RECURSIVE RunRight(_, _)
RunRight(x, p) ==
    IF p < Len(x) - 1 /\ X0(x, p + 1) = X0(x, p) THEN RunRight(x, p + 1) ELSE p

\* The run around p is strictly above the value before it and the value
\* after it, both of which exist.
RunIsPeak(x, p) ==
    /\ RunLeft(x, p) > 0
    /\ RunRight(x, p) < Len(x) - 1
    /\ X0(x, RunLeft(x, p) - 1) < X0(x, p)
    /\ X0(x, RunRight(x, p) + 1) < X0(x, p)

\* C9: peaks_idx is strictly ascending, holds neither the first nor the last
\* channel, every index lies in a maximal run of equal snr values that is
\* strictly above the values next to the run, and no run holds two of them.
C9_PeaksAreRunMaxima ==
    Fresh =>
        /\ \A k \in 1..(Len(peaks_idx) - 1) : peaks_idx[k] < peaks_idx[k + 1]
        /\ \A k \in 1..Len(peaks_idx) :
              /\ peaks_idx[k] > 0
              /\ peaks_idx[k] < Len(snr) - 1
              /\ RunIsPeak(snr, peaks_idx[k])
        /\ \A k, l \in 1..Len(peaks_idx) :
              k # l => RunLeft(snr, peaks_idx[k]) # RunLeft(snr, peaks_idx[l])

\* A peak is reported on a plateau of more than one channel.
C9_Witness ==
    /\ Fresh
    /\ \E k \in 1..Len(peaks_idx) :
          RunLeft(snr, peaks_idx[k]) < RunRight(snr, peaks_idx[k])

\* C10: whenever the last operation was a calculate(), the seven results are
\* those of a PeakSearch newly constructed from the same spectrum and the
\* current configuration.
C10_ResultsDependOnCurrentConfigOnly ==
    Fresh => Results = ResultsOf(init(spectrum, ref_x, ref_fwhm, fwhm_at_0, min_snr))

\* Results recomputed after the configuration was changed from the one the
\* object was constructed with.
C10_Witness ==
    /\ Fresh
    /\ peaks_idx # <<>>
    /\ min_snr \notin MinSnrValues

====
